---------------------------- MODULE Spec2Model ----------------------------
(***************************************************************************)
(* A model of the sqlx offline-mode core:                                  *)
(*   - sqlx-cli/src/metadata.rs : the package graph and its dependents     *)
(*     closure (Metadata::from_str, Metadata::all_dependents_of);          *)
(*   - sqlx-cli/src/prepare.rs  : minimal_project_recompile_action;        *)
(*   - sqlx-macros/src/query/data/{mod,offline}.rs : QueryData::save_in    *)
(*     and load_query_from_data_file with OFFLINE_DATA_CACHE;              *)
(*   - sqlx-cli/src/lib.rs      : retry_connect_errors.                    *)
(*   - sqlx-cli/src/prepare.rs  : run, check and run_prepare_step.          *)
(* The specifications SpecGraph, SpecRetry, SpecCache, SpecSaveFail and     *)
(* SpecPrepare share the module.                                           *)
(***************************************************************************)
EXTENDS Integers, Sequences, FiniteSets, TLC

(***************************************************************************)
(* Bounds of the model.                                                    *)
(***************************************************************************)
NumIds == 2        \* package identities 1..NumIds in an enumerated graph
MaxEdges == 3      \* dependency edges in an enumerated graph
MaxTimeout == 3    \* largest connect_timeout, in clock ticks
MaxInterval == 2   \* longest backoff interval, in clock ticks
MaxAttemptTime == 1 \* longest time one connect attempt takes, in clock ticks
NumWriters == 2    \* concurrent save_in calls
NumLoaders == 2    \* threads calling load_query_from_data_file

VARIABLES
    \* ---- package graph (metadata.rs, prepare.rs) ----
    raw,        \* the `cargo metadata` document handed to from_str
    gpc,        \* "raw" | "built" | "failed"
    metadata,   \* the Metadata value from_str returned
    gout,       \* what the last query on the Metadata returned
    \* ---- retry_connect_errors (lib.rs) ----
    connect_timeout, \* opts.connect_timeout
    rpc,        \* "ready" (about to call connect) | "sleeping" | "done"
    elapsed,    \* time since the backoff was started
    attempts,   \* calls of the connect function so far
    last,       \* what the last call of connect returned
    sleep,      \* the interval next_backoff drew last
    result,     \* what retry_connect_errors returned
    permAt,     \* the attempt that failed permanently (0: none yet)
    allTransient, \* every attempt so far failed transiently
    \* ---- query data files (offline.rs) ----
    offline_dir, \* the `dir` save_in is given (SQLX_OFFLINE_DIR)
    entries,    \* the file system's names: path -> inode (0: no such file)
    inodes,     \* the file system's files: inode -> content
    wst,        \* per save_in call: where it is, self, input_span, open file
    cache,      \* OFFLINE_DATA_CACHE: path -> descriptor
    lock,       \* the thread holding the cache mutex (0: free)
    lst,        \* per loading thread: where it is, arguments, result
    arcs,       \* the Arc allocations behind the cache entries and the values returned
    \* ---- prepare / prepare --check (prepare.rs) ----
    ctx,        \* PrepareCtx: workspace flag, and which of run / check was called
    ppc,        \* where the pass is
    fs,         \* .sqlx and target/sqlx: whether the directory exists, its files
    todo,       \* the touches and cleans setup_minimal_project_recompile has left
    plog        \* the steps taken so far, in order, with their outcomes

gvars == <<raw, gpc, metadata, gout>>
rvars == <<connect_timeout, rpc, elapsed, attempts, last, sleep, result, permAt, allTransient>>
cvars == <<offline_dir, entries, inodes, wst, cache, lock, lst, arcs>>
pvars == <<ctx, ppc, fs, todo, plog>>
vars == <<gvars, rvars, cvars, pvars>>

(***************************************************************************)
(* Helpers on finite sets of identities.  MetadataId is an ordered opaque  *)
(* string; identities are modelled as integers with the same total order.  *)
(***************************************************************************)
MinOf(S) == CHOOSE m \in S : \A x \in S : m <= x

RECURSIVE SortedSeq(_)
\* Iteration order of a BTreeSet / BTreeMap keys: ascending.
SortedSeq(S) ==
    IF S = {} THEN <<>>
    ELSE LET m == MinOf(S) IN <<m>> \o SortedSeq(S \ {m})

RECURSIVE ReverseSeq(_)
ReverseSeq(s) == IF s = <<>> THEN <<>> ELSE ReverseSeq(Tail(s)) \o <<Head(s)>>

Range(s) == {s[i] : i \in DOMAIN s}

\* Every order in which the elements of S can be written down.
Orders(S) ==
    {s \in [1..Cardinality(S) -> S] : \A i, j \in 1..Cardinality(S) : s[i] = s[j] => i = j}

(***************************************************************************)
(* The documents from_str is given.  An edge <<dependent, dependency>> is  *)
(* one `deps` entry of the `resolve` node of `dependent`.                  *)
(***************************************************************************)
MARKER == "sqlx-macros"

Ids == 1..NumIds

PkgNames == <<"a_pkg", "b_pkg", "c_pkg", "d_pkg", "e_pkg">>
LibPaths == <<"/ws/a/src/lib.rs", "/ws/b/src/lib.rs", "/ws/c/src/lib.rs",
              "/ws/d/src/lib.rs", "/ws/e/src/lib.rs">>
BinPaths == <<"/ws/a/src/main.rs", "/ws/b/src/main.rs", "/ws/c/src/main.rs",
              "/ws/d/src/main.rs", "/ws/e/src/main.rs">>

\* One target for an odd identity, two for an even one, none for a multiple of 3.
TargetsOf(id) ==
    IF id % 3 = 0 THEN <<>>
    ELSE IF id % 2 = 0 THEN <<LibPaths[id], BinPaths[id]>>
    ELSE <<LibPaths[id]>>

\* A `packages` entry of the document: name and per-target src_path.
MetadataPackage(id, markers) ==
    [name |-> IF id \in markers THEN MARKER ELSE PkgNames[id],
     targets |-> TargetsOf(id)]

EdgeSets == {E \in SUBSET (Ids \X Ids) : Cardinality(E) <= MaxEdges}

\* Well-formed documents with a `resolve` section; `listed` are the
\* identities that have an entry in `packages` (an edge may name others).
EnumeratedDocs ==
    {[wellformed |-> TRUE,
      packages |-> [id \in listed |-> MetadataPackage(id, markers)],
      workspace_members |-> ws,
      resolve |-> [present |-> TRUE, edges |-> E]] :
        listed \in {Ids} \cup {Ids \ {x} : x \in Ids},
        markers \in SUBSET Ids,
        ws \in SUBSET Ids,
        E \in EdgeSets}

\* tests/assets/sample_metadata.json as prepare.rs's test describes it:
\* b_in_workspace_lib (1) and c_in_workspace_bin (2) in the workspace,
\* sqlx (3) outside it, sqlx-macros (4); b and c depend on sqlx, sqlx on
\* sqlx-macros.  The identities sort as the package-id strings do.
Fixture ==
    [wellformed |-> TRUE,
     packages |->
        (1 :> [name |-> "b_in_workspace_lib",
               targets |-> <<"/home/user/problematic/workspace/b_in_workspace_lib/src/lib.rs">>]
         @@ 2 :> [name |-> "c_in_workspace_bin",
                  targets |-> <<"/home/user/problematic/workspace/c_in_workspace_bin/src/main.rs">>]
         @@ 3 :> [name |-> "sqlx", targets |-> <<"/registry/sqlx/src/lib.rs">>]
         @@ 4 :> [name |-> MARKER, targets |-> <<"/registry/sqlx-macros/src/lib.rs">>]),
     workspace_members |-> {1, 2},
     resolve |-> [present |-> TRUE, edges |-> {<<1, 3>>, <<2, 3>>, <<3, 4>>}]]

\* A document that is not JSON, and one whose `resolve` is null.
BrokenDocs ==
    {[wellformed |-> w,
      packages |-> [id \in Ids |-> MetadataPackage(id, {1})],
      workspace_members |-> Ids,
      resolve |-> [present |-> p, edges |-> {<<2, 1>>}]] :
        w \in BOOLEAN, p \in {FALSE}}

Docs == EnumeratedDocs \cup {Fixture} \cup BrokenDocs

(***************************************************************************)
(* metadata.rs                                                             *)
(***************************************************************************)
\* impl From<&MetadataPackage> for Package
PackageFrom(p) == [name |-> p.name, src_paths |-> p.targets]

\* reverse_deps.entry(dependency).or_default().insert(dependent)
InsertReverseDep(rd, e) ==
    LET dependent == e[1]
        dependency == e[2]
    IN IF dependency \in DOMAIN rd
       THEN [rd EXCEPT ![dependency] = @ \cup {dependent}]
       ELSE rd @@ (dependency :> {dependent})

RECURSIVE BuildReverseDeps(_, _)
\* for node in resolve.nodes { for dep in node.deps { ... } }
BuildReverseDeps(rd, edgeSeq) ==
    IF edgeSeq = <<>> THEN rd
    ELSE BuildReverseDeps(InsertReverseDep(rd, Head(edgeSeq)), Tail(edgeSeq))

NoMetadata ==
    [packages |-> <<>>, workspace_members |-> {}, reverse_deps |-> <<>>]

\* A slip that takes a missing `resolve` for an empty one.
from_str_resolve_or_default(doc, edgeSeq) ==
    IF ~doc.wellformed THEN [status |-> "parse_error", value |-> NoMetadata]
    ELSE [status |-> "ok",
          value |-> [packages |-> [id \in DOMAIN doc.packages |-> PackageFrom(doc.packages[id])],
                     workspace_members |-> doc.workspace_members,
                     reverse_deps |-> <<>>]]

\* Metadata::from_str on document `doc` whose edges arrive in order `edgeSeq`.
from_str(doc, edgeSeq) ==
    IF ~doc.wellformed THEN [status |-> "parse_error", value |-> NoMetadata]
    ELSE IF ~doc.resolve.present THEN [status |-> "no_resolve", value |-> NoMetadata]
    ELSE [status |-> "ok",
          value |-> [packages |-> [id \in DOMAIN doc.packages |-> PackageFrom(doc.packages[id])],
                     workspace_members |-> doc.workspace_members,
                     reverse_deps |-> BuildReverseDeps(<<>>, edgeSeq)]]

RECURSIVE all_dependents_of_helper(_, _, _)
RECURSIVE VisitDependents(_, _, _)
\* A slip that stops at the immediate dependents.
VisitDependentsShallow(md, pending, acc) ==
    [acc EXCEPT !.dependents = @ \cup Range(pending)]

\* The body of the `for immediate_dependent in immediate_dependents` loop;
\* acc.dependents is the `dependents` set, acc.calls counts helper calls.
VisitDependents(md, pending, acc) ==
    IF pending = <<>> THEN acc
    ELSE LET d == Head(pending) IN
         IF d \in acc.dependents
         THEN VisitDependents(md, Tail(pending), acc)
         ELSE VisitDependents(md, Tail(pending),
                all_dependents_of_helper(md, d, [acc EXCEPT !.dependents = @ \cup {d}]))

all_dependents_of_helper(md, id, acc) ==
    LET entered == [acc EXCEPT !.calls = @ + 1] IN
    IF id \in DOMAIN md.reverse_deps
    THEN VisitDependents(md, SortedSeq(md.reverse_deps[id]), entered)
    ELSE entered

\* A slip that takes the start out of its own dependents.
all_dependents_of_counted_without_start(md, id) ==
    LET r == all_dependents_of_helper(md, id, [dependents |-> {}, calls |-> 0])
    IN [r EXCEPT !.dependents = @ \ {id}]

\* Metadata::all_dependents_of, with the number of helper calls it made.
all_dependents_of_counted(md, id) ==
    all_dependents_of_helper(md, id, [dependents |-> {}, calls |-> 0])

all_dependents_of(md, id) == all_dependents_of_counted(md, id).dependents

(***************************************************************************)
(* prepare.rs: minimal_project_recompile_action                            *)
(***************************************************************************)
\* A slip that drops the name filter.
IsAnyPackage(package) == TRUE

\* .filter(|(_, package)| package.name() == "sqlx-macros")
IsSqlxMacros(package) == package.name = MARKER

sqlx_macros_ids(md) == {id \in DOMAIN md.packages : IsSqlxMacros(md.packages[id])}

\* for sqlx_macros_id in sqlx_macros_ids { dependents.extend(all_dependents_of(id)) }
sqlx_macros_dependents(md) ==
    UNION {all_dependents_of(md, id) : id \in sqlx_macros_ids(md)}

\* A slip that walks the dependents from the largest identity down.
DescendingSeq(S) == ReverseSeq(SortedSeq(S))

\* `for dependent in sqlx_macros_dependents`: a BTreeSet iterates ascending.
DependentsInOrder(S) == SortedSeq(S)

\* metadata.workspace_members().contains(&dependent)
InWorkspace(md, id) == id \in md.workspace_members

in_workspace_dependents(md) ==
    SelectSeq(DependentsInOrder(sqlx_macros_dependents(md)), LAMBDA d : InWorkspace(md, d))

out_of_workspace_dependents(md) ==
    SelectSeq(DependentsInOrder(sqlx_macros_dependents(md)), LAMBDA d : ~InWorkspace(md, d))

RECURSIVE files_to_touch(_, _)
\* .filter_map(|id| metadata.package(id).map(|p| p.src_paths().to_owned())).flatten()
files_to_touch(md, ids) ==
    IF ids = <<>> THEN <<>>
    ELSE (IF Head(ids) \in DOMAIN md.packages
          THEN md.packages[Head(ids)].src_paths ELSE <<>>)
         \o files_to_touch(md, Tail(ids))

RECURSIVE packages_to_clean(_, _)
\* .filter_map(|id| metadata.package(id).map(|p| p.name().to_owned()))
packages_to_clean(md, ids) ==
    IF ids = <<>> THEN <<>>
    ELSE (IF Head(ids) \in DOMAIN md.packages
          THEN <<md.packages[Head(ids)].name>> ELSE <<>>)
         \o packages_to_clean(md, Tail(ids))

\* The value returned (always Ok), with the two local vectors it was built from.
minimal_project_recompile_action(md) ==
    [ok |-> TRUE,
     in_workspace |-> in_workspace_dependents(md),
     out_of_workspace |-> out_of_workspace_dependents(md),
     clean_packages |-> packages_to_clean(md, out_of_workspace_dependents(md)),
     touch_paths |-> files_to_touch(md, in_workspace_dependents(md))]

(***************************************************************************)
(* lib.rs: retry_connect_errors.  Time is counted in clock ticks; a        *)
(* backoff interval is at least one tick.                                  *)
(***************************************************************************)
IoKinds == {"ConnectionRefused", "ConnectionReset", "ConnectionAborted",
            "TimedOut", "PermissionDenied"}

\* The sqlx::Error values a connect attempt can fail with.
ConnectErrors ==
    {[variant |-> "Io", kind |-> k] : k \in IoKinds}
    \cup {[variant |-> v, kind |-> "none"] : v \in {"Database", "Configuration"}}

NoError == [variant |-> "none", kind |-> "none"]

\* What a call of the connect function returns.
ConnectOutcomes ==
    {[ok |-> TRUE, err |-> NoError]} \cup {[ok |-> FALSE, err |-> e] : e \in ConnectErrors}

\* A slip that retries every I/O error.
ClassifyAnyIoTransient(e) ==
    IF e.variant = "Io" THEN "transient" ELSE "permanent"

\* The map_err closure: transient for the three connection kinds of
\* sqlx::Error::Io, permanent for everything else.
Classify(e) ==
    IF /\ e.variant = "Io"
       /\ e.kind \in {"ConnectionRefused", "ConnectionReset", "ConnectionAborted"}
    THEN "transient" ELSE "permanent"

\* A slip in the unit of the budget.
max_elapsed_time_wrong_unit(timeout) == 2 * timeout + 2

\* A slip that reads the timeout as milliseconds: less than one tick.
max_elapsed_time_millis(timeout) == timeout \div 1000

\* .with_max_elapsed_time(Some(Duration::from_secs(opts.connect_timeout)))
max_elapsed_time(timeout) == timeout

\* ExponentialBackoff::next_backoff with the randomized interval `interval`:
\* None once the budget is exceeded or the interval no longer fits in it.
next_backoff(timeout, now, interval) ==
    IF now > max_elapsed_time(timeout) THEN [some |-> FALSE, interval |-> interval]
    ELSE IF now + interval <= max_elapsed_time(timeout)
         THEN [some |-> TRUE, interval |-> interval]
         ELSE [some |-> FALSE, interval |-> interval]

NoResult == [ok |-> FALSE, err |-> NoError]

(***************************************************************************)
(* query/data/mod.rs and query/data/offline.rs: the query data files.      *)
(***************************************************************************)
Queries == {"SELECT 1", "SELECT 2"}

\* format!("{:?}", input_span) of the call sites
SpanList == <<"#0 bytes(10..20)", "#0 bytes(30..40)">>
Spans == Range(SpanList)

\* The opaque Describe<DB> payloads.
DescribeList == <<"describe A", "describe B">>
Describes == Range(DescribeList)

\* Spans and payloads are interchangeable: the w-th call uses one of the
\* first w of each, which leaves out only runs that rename them.
SpansOf(w) == {SpanList[i] : i \in {j \in DOMAIN SpanList : j <= w}}
DescribesOf(w) == {DescribeList[i] : i \in {j \in DOMAIN DescribeList : j <= w}}

\* DB::NAME of the database this build's macros describe queries with, and
\* of one whose feature is not enabled.
EnabledDatabases == {"PostgreSQL"}
OtherDatabases == {"MySQL"}

\* hash_string: the SHA-256 digest in hex; distinct strings of the model
\* have distinct digests.
hash_string(str) ==
    CASE str = "SELECT 1" -> "3a5f"
      [] str = "SELECT 2" -> "c41e"
      [] str = "#0 bytes(10..20)" -> "70b2"
      [] str = "#0 bytes(30..40)" -> "e9d8"

\* QueryData::from_describe
from_describe(db, query, describe) ==
    [query |-> query, describe |-> describe,
     hash |-> hash_string(query), db_name |-> db]

NoData == [query |-> "", describe |-> "", hash |-> "", db_name |-> ""]

\* serde_json::to_writer_pretty(self): every field of QueryData is written.
Serialize(data) ==
    [db_name |-> data.db_name, query |-> data.query,
     hash |-> data.hash, describe |-> data.describe]

\* serde_json::from_str::<RawQueryData>: `hash` is #[serde(skip)], so the
\* document's hash is ignored and the field takes String::default().
Deserialize(doc) ==
    [db_name |-> doc.db_name, query |-> doc.query,
     hash |-> "", describe |-> doc.describe]

TmpDir == "target/sqlx"          \* meta.target_dir.join("sqlx")
OfflineDirs == {".sqlx", "target/sqlx"}   \* prepare, and prepare --check

Names == {hash_string(x) : x \in Queries \cup Spans}
Paths == (OfflineDirs \cup {TmpDir}) \X Names

\* tmp_dir.join("query-<hash of the span>.json")
tmp_path(span) == <<TmpDir, hash_string(span)>>

\* dir.join("query-<self.hash>.json")
final_path(dir, data) == <<dir, data.hash>>

(***************************************************************************)
(* The file system.  A file is an inode; a name is a directory entry that  *)
(* points at one.  An open file stays open across a rename of its name.    *)
(***************************************************************************)
Writers == 1..NumWriters
Loaders == 1..NumLoaders

PreInode == NumWriters + 1      \* the file present before the run, if any
InodeIds == 1..(NumWriters + 1)

NoDoc == Serialize(NoData)
NoFile == [state |-> "none", doc |-> NoDoc]
EmptyFile == [state |-> "empty", doc |-> NoDoc]
Garbage == [state |-> "garbage", doc |-> NoDoc]
PartialFile(doc) == [state |-> "partial", doc |-> doc]
FullFile(doc) == [state |-> "full", doc |-> doc]

\* Inodes with neither a name nor an open handle are gone.
Reclaim(ents, inos, st) ==
    [i \in InodeIds |->
        IF (\E p \in Paths : ents[p] = i)
           \/ (\E w \in Writers : st[w].fd = i /\ st[w].pc \in {"created", "writing", "flushed"})
        THEN inos[i] ELSE NoFile]

\* The content after a first part of `doc` is written at offset 0.
AfterChunk(cur, doc) ==
    IF cur.state = "empty" THEN {PartialFile(doc)}
    ELSE IF cur.doc = doc /\ cur.state \in {"partial", "full"} THEN {cur}
    ELSE {Garbage}

\* The content after the rest of `doc` is written; `started` tells whether
\* this writer wrote a first part before.  Writing over another writer's
\* bytes leaves `doc` or a mix, by their lengths.
AfterFlush(cur, doc, started) ==
    IF cur.doc = doc /\ cur.state \in {"partial", "full"} THEN {FullFile(doc)}
    ELSE IF cur.state = "empty" THEN (IF started THEN {Garbage} ELSE {FullFile(doc)})
    ELSE IF started THEN {Garbage}
    ELSE {FullFile(doc), Garbage}

IdleWriter == [pc |-> "idle", data |-> NoData, span |-> "", fd |-> 0]

\* File::create(&tmp_path): the file of that name, truncated, or a new one.
create_at(ents, w, path) == IF ents[path] # 0 THEN ents[path] ELSE w

\* save_in up to File::create: the temporary file exists and is empty.
SaveCreate(w) ==
    /\ wst[w].pc = "idle"
    /\ \E db \in EnabledDatabases, query \in Queries,
          describe \in DescribesOf(w), span \in SpansOf(w) :
         LET data == from_describe(db, query, describe)
             path == tmp_path(span)
             ino == create_at(entries, w, path)
         IN /\ wst' = [wst EXCEPT ![w] = [pc |-> "created", data |-> data, span |-> span, fd |-> ino]]
            /\ entries' = [entries EXCEPT ![path] = ino]
            /\ inodes' = [inodes EXCEPT ![ino] = EmptyFile]
    /\ UNCHANGED <<gvars, rvars, pvars, offline_dir, cache, lock, lst, arcs>>

\* to_writer_pretty fills the BufWriter, which writes a first part out.
SaveWriteChunk(w) ==
    /\ wst[w].pc = "created"
    /\ \E c \in AfterChunk(inodes[wst[w].fd], Serialize(wst[w].data)) :
         inodes' = [inodes EXCEPT ![wst[w].fd] = c]
    /\ wst' = [wst EXCEPT ![w].pc = "writing"]
    /\ UNCHANGED <<gvars, rvars, pvars, offline_dir, entries, cache, lock, lst, arcs>>

\* buf_writer.flush(): the rest of the document is written.
SaveFlush(w) ==
    /\ wst[w].pc \in {"created", "writing"}
    /\ \E c \in AfterFlush(inodes[wst[w].fd], Serialize(wst[w].data), wst[w].pc = "writing") :
         inodes' = [inodes EXCEPT ![wst[w].fd] = c]
    /\ wst' = [wst EXCEPT ![w].pc = "flushed"]
    /\ UNCHANGED <<gvars, rvars, pvars, offline_dir, entries, cache, lock, lst, arcs>>

\* fs::rename(&tmp_path, &final_path): fails when the temporary name is
\* gone; otherwise the final name points at the temporary file's inode.
SaveRename(w) ==
    /\ wst[w].pc = "flushed"
    /\ LET from == tmp_path(wst[w].span)
           to == final_path(offline_dir, wst[w].data)
           moved == [[entries EXCEPT ![from] = 0] EXCEPT ![to] = entries[from]]
       IN IF entries[from] = 0
          THEN /\ wst' = [wst EXCEPT ![w].pc = "failed"]
               /\ entries' = entries
               /\ inodes' = Reclaim(entries, inodes, wst')
          ELSE /\ wst' = [wst EXCEPT ![w].pc = "done"]
               /\ entries' = moved
               /\ inodes' = Reclaim(moved, inodes, wst')
    /\ UNCHANGED <<gvars, rvars, pvars, offline_dir, cache, lock, lst, arcs>>

\* A file-system step of save_in returns an error and `?` returns it: the
\* create_dir_all or File::create at the start (nothing was created), the
\* write or the flush (the temporary file keeps what it holds), or the
\* create_dir_all of the final directory (the temporary file is complete).
\* Nothing in save_in removes the temporary file.
SaveFail(w) ==
    /\ wst[w].pc \in {"idle", "created", "writing", "flushed"}
    /\ IF wst[w].pc = "idle"
       THEN \E db \in EnabledDatabases, query \in Queries,
               describe \in DescribesOf(w), span \in SpansOf(w) :
              wst' = [wst EXCEPT ![w] = [pc |-> "failed", span |-> span, fd |-> 0,
                                         data |-> from_describe(db, query, describe)]]
       ELSE wst' = [wst EXCEPT ![w].pc = "failed"]
    /\ inodes' = Reclaim(entries, inodes, wst')
    /\ UNCHANGED <<gvars, rvars, pvars, offline_dir, entries, cache, lock, lst, arcs>>

(***************************************************************************)
(* load_query_from_data_file                                               *)
(***************************************************************************)
LoadResult(status, data, src, stored) ==
    [status |-> status, data |-> data, src |-> src, stored |-> stored]

NoLoad == LoadResult("none", NoData, "none", NoDoc)

IdleLoader == [pc |-> "idle", path |-> <<"", "">>, query |-> "", res |-> NoLoad]

\* An Arc is known by its allocation: 0 for none, otherwise a number that
\* names the thread whose Arc::new made it.
NoArcs == [cached |-> [p \in Paths |-> 0], returned |-> [l \in Loaders |-> 0]]

\* Arc::new(QueryData { .. }) on thread l
Arc_new(l) == l

\* A slip that copies the descriptor into a new allocation.
Arc_deep_copy(a, l) == NumLoaders + l

\* Arc::clone (`.cloned()`, `dyn_data.clone()`): the same allocation.
Arc_clone(a, l) == a

\* A slip that returns a cached descriptor without comparing the query.
cache_hit_unchecked(cached, query) ==
    LoadResult("ok", cached, "cache", Serialize(cached))

\* if let Some(cached) = cache.get(path).cloned() { ... }
cache_hit(cached, query) ==
    IF query # cached.query
    THEN LoadResult("collision", NoData, "cache", Serialize(cached))
    ELSE LoadResult("ok", cached, "cache", Serialize(cached))

\* A slip that builds a descriptor whatever the tag.
to_dyn_data_any_db(offline_data) ==
    LoadResult("ok",
               [query |-> offline_data.query, hash |-> offline_data.hash,
                db_name |-> offline_data.db_name, describe |-> offline_data.describe],
               "disk", NoDoc)

\* The to_dyn_data! match on offline_data.db_name.
to_dyn_data(offline_data) ==
    IF offline_data.db_name \in EnabledDatabases
    THEN LoadResult("ok",
                    [query |-> offline_data.query, hash |-> offline_data.hash,
                     db_name |-> offline_data.db_name, describe |-> offline_data.describe],
                    "disk", NoDoc)
    ELSE LoadResult("unknown_db", NoData, "disk", NoDoc)

\* A slip that leaves out the comparison of the stored query.
load_from_disk_no_compare(file, query) ==
    IF file.state = "none" THEN LoadResult("io_error", NoData, "disk", NoDoc)
    ELSE IF file.state # "full" THEN LoadResult("parse_error", NoData, "disk", NoDoc)
    ELSE [to_dyn_data(Deserialize(file.doc)) EXCEPT !.stored = file.doc]

\* The cache-miss path on the file `file` found at the path (NoFile: none).
load_from_disk(file, query) ==
    IF file.state = "none" THEN LoadResult("io_error", NoData, "disk", NoDoc)
    ELSE IF file.state # "full" THEN LoadResult("parse_error", NoData, "disk", NoDoc)
    ELSE LET offline_data == Deserialize(file.doc) IN
         IF query # offline_data.query
         THEN LoadResult("collision", NoData, "disk", file.doc)
         ELSE [to_dyn_data(offline_data) EXCEPT !.stored = file.doc]

FileAt(path) == IF entries[path] = 0 THEN NoFile ELSE inodes[entries[path]]

\* The paths the macros ask for: query-<hash>.json in the offline directory.
LoadPaths == {<<offline_dir, hash_string(q)>> : q \in Queries}

\* A slip that goes to the file without looking the path up.
LoadBeginNoLookup(l) ==
    /\ lst[l].pc = "idle"
    /\ lock = 0
    /\ \E path \in LoadPaths, query \in Queries :
         /\ lst' = [lst EXCEPT ![l] = [pc |-> "reading", path |-> path, query |-> query,
                                       res |-> NoLoad]]
         /\ arcs' = arcs
         /\ lock' = l
    /\ UNCHANGED <<gvars, rvars, pvars, offline_dir, entries, inodes, wst, cache>>

\* OFFLINE_DATA_CACHE.lock(), then the cache lookup: a hit returns (and
\* drops the guard), a miss goes on to read the file with the guard held.
LoadBegin(l) ==
    /\ lst[l].pc = "idle"
    /\ lock = 0
    /\ \E path \in LoadPaths, query \in Queries :
         IF cache[path] # NoData
         THEN /\ lst' = [lst EXCEPT ![l] = [pc |-> "returned", path |-> path, query |-> query,
                                            res |-> cache_hit(cache[path], query)]]
              /\ arcs' = IF cache_hit(cache[path], query).status = "ok"
                         THEN [arcs EXCEPT !.returned[l] = Arc_clone(arcs.cached[path], l)]
                         ELSE arcs
              /\ lock' = 0
         ELSE /\ lst' = [lst EXCEPT ![l] = [pc |-> "reading", path |-> path, query |-> query,
                                            res |-> NoLoad]]
              /\ arcs' = arcs
              /\ lock' = l
    /\ UNCHANGED <<gvars, rvars, pvars, offline_dir, entries, inodes, wst, cache>>

\* fs::read_to_string, the parse and the checks, cache.insert, return.
LoadRead(l) ==
    /\ lst[l].pc = "reading"
    /\ LET r == load_from_disk(FileAt(lst[l].path), lst[l].query) IN
       /\ lst' = [lst EXCEPT ![l].pc = "returned", ![l].res = r]
       /\ cache' = IF r.status = "ok" THEN [cache EXCEPT ![lst[l].path] = r.data] ELSE cache
       /\ arcs' = IF r.status = "ok"
                  THEN [arcs EXCEPT !.cached[lst[l].path] = Arc_clone(Arc_new(l), l),
                                    !.returned[l] = Arc_new(l)]
                  ELSE arcs
    /\ lock' = 0
    /\ UNCHANGED <<gvars, rvars, pvars, offline_dir, entries, inodes, wst>>


\* One pass of backoff::future::retry: connect is called and takes `took`
\* ticks; Ok and permanent errors return, a transient error asks
\* next_backoff for the next interval and sleeps or gives up.
Attempt ==
    /\ rpc = "ready"
    /\ \E outcome \in ConnectOutcomes, took \in 0..MaxAttemptTime, interval \in 1..MaxInterval :
         LET now == elapsed + took
             class == IF outcome.ok THEN "ok" ELSE Classify(outcome.err)
             backoff == next_backoff(connect_timeout, now, interval)
         IN /\ attempts' = attempts + 1
            /\ elapsed' = now
            /\ last' = outcome
            /\ allTransient' = (allTransient /\ class = "transient")
            /\ permAt' = IF class = "permanent" /\ permAt = 0 THEN attempts + 1 ELSE permAt
            /\ IF class = "transient" /\ backoff.some
               THEN /\ rpc' = "sleeping"
                    /\ sleep' = backoff.interval
                    /\ result' = result
               ELSE /\ rpc' = "done"
                    /\ sleep' = IF class = "transient" THEN backoff.interval ELSE sleep
                    /\ result' = outcome
    /\ UNCHANGED <<gvars, cvars, pvars, connect_timeout>>

\* The backoff sleep is over.
Wake ==
    /\ rpc = "sleeping"
    /\ elapsed' = elapsed + sleep
    /\ rpc' = "ready"
    /\ UNCHANGED <<gvars, cvars, pvars, connect_timeout, attempts, last, sleep, result, permAt, allTransient>>

(***************************************************************************)
(* prepare.rs: run / check and run_prepare_step.  A directory is whether   *)
(* it exists and the files in it; a file is known by what it is and by the *)
(* pass that wrote it.                                                     *)
(***************************************************************************)
OldDescriptor == [kind |-> "descriptor", pass |-> "earlier"]
OldTemp == [kind |-> "temp", pass |-> "earlier"]
NewDescriptor == [kind |-> "descriptor", pass |-> "this"]
NewTemp == [kind |-> "temp", pass |-> "this"]

NoDir == [exists |-> FALSE, files |-> {}]

\* root.join(".sqlx") in run, ctx.target_dir.join("sqlx") in check
cache_dir(c) == IF c.check THEN "target/sqlx" ELSE ".sqlx"

\* A slip that only creates the directory.
ensure_dir_exists(dir) == [exists |-> TRUE, files |-> dir.files]

\* remove_dir_all::ensure_empty_dir(cache_dir)
ensure_empty_dir(dir) == [exists |-> TRUE, files |-> {}]

Step(cmd, arg, ok) == [cmd |-> cmd, arg |-> arg, ok |-> ok]

NoTodo == [touch |-> <<>>, clean |-> <<>>]

PrepIdle ==
    /\ ctx = [workspace |-> FALSE, check |-> FALSE]
    /\ ppc = "idle"
    /\ fs = [d \in OfflineDirs |-> NoDir]
    /\ todo = NoTodo
    /\ plog = <<>>

\* What a build writes: the macros save descriptors into `dir` through
\* temporary files in target/sqlx; a build that fails may leave a temporary
\* file behind.
BuildWrites(files, dir, ok) ==
    {g \in [OfflineDirs -> [exists : BOOLEAN, files : SUBSET {OldDescriptor, OldTemp, NewDescriptor, NewTemp}]] :
        \/ g = files
        \/ /\ g[dir].exists /\ g[TmpDir].exists
           /\ \A d \in OfflineDirs \ {dir, TmpDir} : g[d] = files[d]
           /\ \E temps \in (IF ok THEN {{}} ELSE {{}, {NewTemp}}) :
                IF dir = TmpDir
                THEN g[dir].files = files[dir].files \cup {NewDescriptor} \cup temps
                ELSE /\ g[dir].files = files[dir].files \cup {NewDescriptor}
                     /\ g[TmpDir].files = files[TmpDir].files \cup temps}

\* A slip that goes on when the connection could not be made.
PrepConnectUnchecked ==
    /\ ppc = "start"
    /\ \E ok \in BOOLEAN :
         /\ ppc' = "connected"
         /\ plog' = Append(plog, Step("connect", "", ok))
    /\ UNCHANGED <<gvars, rvars, cvars, ctx, fs, todo>>

\* crate::connect(connect_opts).await?.close().await?
PrepConnect ==
    /\ ppc = "start"
    /\ \E ok \in BOOLEAN :
         /\ ppc' = IF ok THEN "connected" ELSE "failed"
         /\ plog' = Append(plog, Step("connect", "", ok))
    /\ UNCHANGED <<gvars, rvars, cvars, ctx, fs, todo>>

\* anyhow::ensure!(Path::new("Cargo.toml").exists(), ..)
PrepManifest ==
    /\ ppc = "connected"
    /\ \E ok \in BOOLEAN :
         /\ ppc' = IF ok THEN "in_manifest_dir" ELSE "failed"
         /\ plog' = Append(plog, Step("Cargo.toml", "", ok))
    /\ UNCHANGED <<gvars, rvars, cvars, ctx, fs, todo>>

\* remove_dir_all::ensure_empty_dir(cache_dir)?; a failure may have removed
\* a part of the contents.
PrepEnsureEmptyDir ==
    /\ ppc = "in_manifest_dir"
    /\ LET d == cache_dir(ctx) IN
       \/ /\ fs' = [fs EXCEPT ![d] = ensure_empty_dir(fs[d])]
          /\ ppc' = "emptied"
          /\ plog' = Append(plog, Step("ensure_empty_dir", d, TRUE))
       \/ /\ \E left \in SUBSET fs[d].files : fs' = [fs EXCEPT ![d].files = left]
          /\ ppc' = "failed"
          /\ plog' = Append(plog, Step("ensure_empty_dir", d, FALSE))
    /\ UNCHANGED <<gvars, rvars, cvars, ctx, todo>>

\* `cargo metadata`, then output_str.parse()?; with ctx.workspace the plan of
\* setup_minimal_project_recompile is what is left to do next.
PrepMetadata ==
    /\ ppc = "emptied"
    /\ \E ran \in BOOLEAN, edgeSeq \in Orders(raw.resolve.edges) :
         LET r == from_str(raw, edgeSeq)
             ok == ran /\ r.status = "ok"
             action == minimal_project_recompile_action(r.value)
         IN /\ plog' = Append(plog, Step("cargo metadata", "", ok))
            /\ gpc' = IF ran THEN (IF r.status = "ok" THEN "built" ELSE r.status) ELSE gpc
            /\ metadata' = IF ok THEN r.value ELSE metadata
            /\ ppc' = IF ~ok THEN "failed"
                      ELSE IF ctx.workspace THEN "setup" ELSE "rustc"
            /\ todo' = IF ok /\ ctx.workspace
                       THEN [touch |-> action.touch_paths, clean |-> action.clean_packages]
                       ELSE todo
    /\ UNCHANGED <<raw, gout, rvars, cvars, ctx, fs>>

\* filetime::set_file_times(&file, now, now) for the next of touch_paths;
\* an error leaves setup_minimal_project_recompile, and run_prepare_step
\* falls back to a full clean.
PrepTouch ==
    /\ ppc = "setup"
    /\ todo.touch # <<>>
    /\ \E ok \in BOOLEAN :
         /\ plog' = Append(plog, Step("touch", Head(todo.touch), ok))
         /\ todo' = IF ok THEN [todo EXCEPT !.touch = Tail(@)] ELSE NoTodo
         /\ ppc' = IF ok THEN "setup" ELSE "fallback"
    /\ UNCHANGED <<gvars, rvars, cvars, ctx, fs>>

\* `cargo clean -p <pkg>` for the next of clean_packages, after the touches.
PrepCleanPackage ==
    /\ ppc = "setup"
    /\ todo.touch = <<>>
    /\ todo.clean # <<>>
    /\ \E ok \in BOOLEAN :
         /\ plog' = Append(plog, Step("cargo clean -p", Head(todo.clean), ok))
         /\ todo' = IF ok THEN [todo EXCEPT !.clean = Tail(@)] ELSE NoTodo
         /\ ppc' = IF ok THEN "setup" ELSE "fallback"
    /\ UNCHANGED <<gvars, rvars, cvars, ctx, fs>>

\* setup_minimal_project_recompile returned Ok(()).
PrepSetupDone ==
    /\ ppc = "setup"
    /\ todo = NoTodo
    /\ ppc' = "check"
    /\ UNCHANGED <<gvars, rvars, cvars, ctx, fs, todo, plog>>

\* The Err arm: `cargo clean`, which removes the target directory.
PrepCleanAll ==
    /\ ppc = "fallback"
    /\ \E ok \in BOOLEAN :
         /\ plog' = Append(plog, Step("cargo clean", "", ok))
         /\ fs' = IF ok THEN [fs EXCEPT ![TmpDir] = NoDir] ELSE fs
         /\ ppc' = IF ok THEN "check" ELSE "failed"
    /\ UNCHANGED <<gvars, rvars, cvars, ctx, todo>>

\* Without ctx.workspace: the `cargo rustc` command is run by the
\* `.status()?` that ends the else block, before DATABASE_URL, SQLX_OFFLINE
\* and SQLX_OFFLINE_DIR are set on it: where its macros save is not decided
\* by this code.
PrepRustc ==
    /\ ppc = "rustc"
    /\ \E ran \in BOOLEAN, dir \in OfflineDirs, ok \in BOOLEAN :
         /\ plog' = Append(plog, Step("cargo rustc", "no SQLX_OFFLINE_DIR", ran))
         /\ fs' \in (IF ran THEN BuildWrites(fs, dir, ok) ELSE {fs})
         /\ ppc' = IF ran THEN "check" ELSE "failed"
    /\ UNCHANGED <<gvars, rvars, cvars, ctx, todo>>

\* check_cmd.env("SQLX_OFFLINE_DIR", cache_dir) .. .status()?, then the
\* test of check_status.success().
PrepCheck ==
    /\ ppc = "check"
    /\ \E ok \in BOOLEAN :
         /\ plog' = Append(plog, Step(IF ctx.workspace THEN "cargo check" ELSE "cargo rustc",
                                      cache_dir(ctx), ok))
         /\ fs' \in BuildWrites(fs, cache_dir(ctx), ok)
         /\ ppc' = IF ok THEN "done" ELSE "failed"
    /\ UNCHANGED <<gvars, rvars, cvars, ctx, todo>>

(***************************************************************************)
(* SpecGraph: a document is parsed, then queried.                          *)
(***************************************************************************)
NoPlan ==
    [ok |-> FALSE, in_workspace |-> <<>>, out_of_workspace |-> <<>>,
     clean_packages |-> <<>>, touch_paths |-> <<>>]

NoOutput == [op |-> "none", id |-> 0, dependents |-> {}, calls |-> 0, plan |-> NoPlan]

RetryIdle ==
    /\ rpc = "ready"
    /\ elapsed = 0
    /\ attempts = 0
    /\ last = NoResult
    /\ sleep = 0
    /\ result = NoResult
    /\ permAt = 0
    /\ allTransient = TRUE

CacheIdle ==
    /\ offline_dir = ".sqlx"
    /\ entries = [p \in Paths |-> 0]
    /\ inodes = [i \in InodeIds |-> NoFile]
    /\ wst = [w \in Writers |-> IdleWriter]
    /\ cache = [p \in Paths |-> NoData]
    /\ lock = 0
    /\ lst = [l \in Loaders |-> IdleLoader]
    /\ arcs = NoArcs

GraphIdle ==
    /\ gpc = "raw"
    /\ metadata = NoMetadata
    /\ gout = NoOutput

InitGraph ==
    /\ raw \in Docs
    /\ PrepIdle
    /\ GraphIdle
    /\ RetryIdle
    /\ connect_timeout = 0
    /\ CacheIdle

\* output_str.parse(): the edges of `resolve` arrive in some order.
FromStr ==
    /\ gpc = "raw"
    /\ \E edgeSeq \in Orders(raw.resolve.edges) :
         LET r == from_str(raw, edgeSeq) IN
         /\ gpc' = IF r.status = "ok" THEN "built" ELSE r.status
         /\ metadata' = r.value
    /\ UNCHANGED <<raw, gout, rvars, cvars, pvars>>

\* metadata.all_dependents_of(&id), for any identity, listed or not.
AllDependentsOf ==
    /\ gpc = "built"
    /\ \E id \in DOMAIN raw.packages \cup Ids :
         LET r == all_dependents_of_counted(metadata, id) IN
         gout' = [op |-> "all_dependents_of", id |-> id,
                  dependents |-> r.dependents, calls |-> r.calls, plan |-> NoPlan]
    /\ UNCHANGED <<raw, gpc, metadata, rvars, cvars, pvars>>

\* minimal_project_recompile_action(&metadata)
Plan ==
    /\ gpc = "built"
    /\ gout' = [op |-> "plan", id |-> 0, dependents |-> {}, calls |-> 0,
                plan |-> minimal_project_recompile_action(metadata)]
    /\ UNCHANGED <<raw, gpc, metadata, rvars, cvars, pvars>>

NextGraph == FromStr \/ AllDependentsOf \/ Plan

SpecGraph == InitGraph /\ [][NextGraph]_vars

InitRetry ==
    /\ connect_timeout \in 0..MaxTimeout
    /\ PrepIdle
    /\ RetryIdle
    /\ raw = Fixture
    /\ GraphIdle
    /\ CacheIdle

NextRetry == Attempt \/ Wake

\* The runtime keeps polling the future: a step that can be taken is taken.
SpecRetry == InitRetry /\ [][NextRetry]_vars /\ WF_vars(NextRetry)

(***************************************************************************)
(* SpecCache: save_in calls and loads run against one offline directory.   *)
(***************************************************************************)
\* What may lie at query-<hash of "SELECT 1">.json before the run: nothing,
\* the saved descriptor, another query's descriptor, a descriptor of a
\* database this build does not support, or a file that is not a descriptor.
PreFiles ==
    {NoFile, Garbage}
    \cup {FullFile(Serialize(from_describe(db, q, "describe A"))) :
            db \in EnabledDatabases, q \in Queries}
    \cup {FullFile(Serialize(from_describe(db, "SELECT 1", "describe A"))) :
            db \in OtherDatabases}

InitCache ==
    /\ offline_dir \in OfflineDirs
    /\ PrepIdle
    /\ \E pre \in PreFiles :
         /\ entries = [p \in Paths |->
                IF p = <<offline_dir, hash_string("SELECT 1")>> /\ pre # NoFile
                THEN PreInode ELSE 0]
         /\ inodes = [i \in InodeIds |-> IF i = PreInode THEN pre ELSE NoFile]
    /\ wst = [w \in Writers |-> IdleWriter]
    /\ cache = [p \in Paths |-> NoData]
    /\ lock = 0
    /\ lst = [l \in Loaders |-> IdleLoader]
    /\ arcs = NoArcs
    /\ raw = Fixture
    /\ GraphIdle
    /\ RetryIdle
    /\ connect_timeout = 0

NextCache ==
    \/ \E w \in Writers : SaveCreate(w)
    \/ \E w \in Writers : SaveWriteChunk(w)
    \/ \E w \in Writers : SaveFlush(w)
    \/ \E w \in Writers : SaveRename(w)
    \/ \E l \in Loaders : LoadBegin(l)
    \/ \E l \in Loaders : LoadRead(l)

SpecCache == InitCache /\ [][NextCache]_vars

(***************************************************************************)
(* SpecSaveFail: save_in calls on a file system whose operations may fail. *)
(***************************************************************************)
NextSaveFail ==
    \/ \E w \in Writers : SaveCreate(w)
    \/ \E w \in Writers : SaveWriteChunk(w)
    \/ \E w \in Writers : SaveFlush(w)
    \/ \E w \in Writers : SaveRename(w)
    \/ \E w \in Writers : SaveFail(w)

SpecSaveFail == InitCache /\ [][NextSaveFail]_vars

(***************************************************************************)
(* SpecPrepare: one pass of `cargo sqlx prepare` or `prepare --check`.     *)
(***************************************************************************)
\* What the two directories may hold when the pass starts.
InitialDirs ==
    {NoDir} \cup {[exists |-> TRUE, files |-> F] : F \in SUBSET {OldDescriptor, OldTemp}}

InitPrepare ==
    /\ ctx \in [workspace : BOOLEAN, check : BOOLEAN]
    /\ ppc = "start"
    /\ fs \in [OfflineDirs -> InitialDirs]
    /\ todo = NoTodo
    /\ plog = <<>>
    /\ raw \in {Fixture} \cup BrokenDocs
    /\ GraphIdle
    /\ RetryIdle
    /\ connect_timeout = 0
    /\ CacheIdle

NextPrepare ==
    \/ PrepConnect
    \/ PrepManifest
    \/ PrepEnsureEmptyDir
    \/ PrepMetadata
    \/ PrepTouch
    \/ PrepCleanPackage
    \/ PrepSetupDone
    \/ PrepCleanAll
    \/ PrepRustc
    \/ PrepCheck

SpecPrepare == InitPrepare /\ [][NextPrepare]_vars

(***************************************************************************)
(* Properties of the package graph and the recompile planner.              *)
(***************************************************************************)
\* The dependents of the identities X by one reverse-dependency edge.
DirectDependents(E, X) == {e[1] : e \in {f \in E : f[2] \in X}}

RECURSIVE GrowDependents(_, _)
GrowDependents(E, R) ==
    LET more == R \cup DirectDependents(E, R) IN
    IF more = R THEN R ELSE GrowDependents(E, more)

\* The identities reachable from id by one or more reverse-dependency edges
\* of the edge set E (no order of the edges enters here).
TransitiveDependents(E, id) == GrowDependents(E, DirectDependents(E, {id}))

Listed == DOMAIN raw.packages

MarkerIds == {id \in Listed : raw.packages[id].name = MARKER}

MarkerDependents ==
    UNION {TransitiveDependents(raw.resolve.edges, m) : m \in MarkerIds}

NamesAlong(ids) == [i \in 1..Len(ids) |-> raw.packages[ids[i]].name]

RECURSIVE PathsAlong(_)
PathsAlong(ids) ==
    IF ids = <<>> THEN <<>>
    ELSE raw.packages[Head(ids)].targets \o PathsAlong(Tail(ids))

\* C1: for every graph, cyclic or not, all_dependents_of(G, id) terminates
\* (one helper call for the start and one per dependent found) and returns
\* exactly the identities reachable from id by one or more reverse-dependency
\* edges, whatever the order in which from_str was fed the edges.
C1_DependentsClosure ==
    (gpc = "built" /\ gout.op = "all_dependents_of") =>
        /\ gout.dependents = TransitiveDependents(raw.resolve.edges, gout.id)
        /\ gout.calls = 1 + Cardinality(gout.dependents)

\* A graph with a cycle through the queried identity and a second dependent.
C1_Witness ==
    /\ gpc = "built" /\ gout.op = "all_dependents_of"
    /\ gout.id \in gout.dependents
    /\ Cardinality(gout.dependents) >= 2
    /\ <<gout.id, gout.id>> \notin raw.resolve.edges

\* C2: the planner's in-workspace and out-of-workspace sets are disjoint,
\* together they are the union of the dependents of every package named
\* sqlx-macros, and every dependent contributes all of its source paths (in
\* the workspace) or its name (outside it) to the action.
C2_PartitionContributes ==
    gout.op = "plan" =>
        LET inS == Range(gout.plan.in_workspace)
            outS == Range(gout.plan.out_of_workspace)
        IN /\ inS \cap outS = {}
           /\ inS \cup outS = MarkerDependents
           /\ inS \subseteq raw.workspace_members
           /\ outS \cap raw.workspace_members = {}
           /\ \A d \in inS :
                /\ d \in Listed
                /\ Range(raw.packages[d].targets) \subseteq Range(gout.plan.touch_paths)
           /\ \A d \in outS :
                /\ d \in Listed
                /\ raw.packages[d].name \in Range(gout.plan.clean_packages)

\* The fixture's result, as prepare.rs's test asserts it.
FixtureResult ==
    (raw = Fixture /\ gout.op = "plan") =>
        /\ gout.plan.clean_packages = <<"sqlx">>
        /\ gout.plan.touch_paths =
             <<"/home/user/problematic/workspace/b_in_workspace_lib/src/lib.rs",
               "/home/user/problematic/workspace/c_in_workspace_bin/src/main.rs">>

C4_NoMarkerEmptyAction ==
    (gout.op = "plan" /\ MarkerIds = {}) =>
        /\ gout.plan.ok
        /\ gout.plan.clean_packages = <<>>
        /\ gout.plan.touch_paths = <<>>

\* A planned graph without the marker in which packages do depend on others.
C4_Witness ==
    /\ gout.op = "plan" /\ MarkerIds = {}
    /\ Listed = Ids
    /\ \E e \in raw.resolve.edges : e[1] # e[2]

\* C16: from_str fails with a parse error on text that is not well-formed
\* and with the missing-resolution error when `resolve` is absent; it
\* returns a graph only for a well-formed document that has `resolve`.
C16_FromStrErrors ==
    gpc # "raw" =>
        /\ ~raw.wellformed => (gpc = "parse_error" /\ metadata = NoMetadata)
        /\ (raw.wellformed /\ ~raw.resolve.present) =>
              (gpc = "no_resolve" /\ metadata = NoMetadata)
        /\ gpc = "built" => (raw.wellformed /\ raw.resolve.present)

\* A well-formed document without `resolve` was refused.
C16_Witness ==
    /\ raw.wellformed /\ ~raw.resolve.present
    /\ gpc = "no_resolve"

\* The identities that occur in reverse_deps, as a key or as a member.
ReverseDepsIds ==
    DOMAIN metadata.reverse_deps
    \cup UNION {metadata.reverse_deps[k] : k \in DOMAIN metadata.reverse_deps}

\* C18: an edge that names an identity without a package entry is reported
\* as an input error: every identity in the reverse_deps of a graph that
\* was built is a key of `packages`, and the planner leaves no
\* out-of-workspace dependent out of clean_packages.
C18_DanglingIdsReported ==
    /\ gpc = "built" => ReverseDepsIds \subseteq DOMAIN metadata.packages
    /\ gout.op = "plan" =>
          Len(gout.plan.clean_packages) = Len(gout.plan.out_of_workspace)

RECURSIVE GrowDependencies(_, _)
\* The identities X depends on, directly or through others, by the
\* dependency edges of E followed forwards.
GrowDependencies(E, X) ==
    LET more == X \cup {e[2] : e \in {f \in E : f[1] \in X}} IN
    IF more = X THEN X ELSE GrowDependencies(E, more)

\* id depends on itself, directly or through other packages.
OnCycle(E, id) ==
    id \in GrowDependencies(E, {e[2] : e \in {f \in E : f[1] = id}})

\* C19 as stated: all_dependents_of(G, id) contains id exactly when the
\* input has an edge in which id depends on id.
C19_SelfOnlyBySelfEdge ==
    (gpc = "built" /\ gout.op = "all_dependents_of") =>
        (gout.id \in gout.dependents <=> <<gout.id, gout.id>> \in raw.resolve.edges)

\* C19 (amended): all_dependents_of(G, id) contains id exactly when id
\* lies on a dependency cycle of the input, a self-dependency being the
\* cycle of length one; nothing treats the start specially.
C19_SelfOnlyOnCycle ==
    (gpc = "built" /\ gout.op = "all_dependents_of") =>
        (gout.id \in gout.dependents <=> OnCycle(raw.resolve.edges, gout.id))

\* The start is its only dependent, through a self-dependency, and another
\* start of the same graph is not among its own dependents.
C19_Witness ==
    /\ gpc = "built" /\ gout.op = "all_dependents_of"
    /\ gout.dependents = {gout.id}
    /\ <<gout.id, gout.id>> \in raw.resolve.edges
    /\ \E other \in Ids : ~OnCycle(raw.resolve.edges, other)

(***************************************************************************)
(* Properties of retry_connect_errors.                                     *)
(***************************************************************************)
\* The errors the retry law calls transient: an I/O error whose kind is
\* connection refused, reset or aborted.  Every other error is permanent.
TransientError(e) ==
    \/ e = [variant |-> "Io", kind |-> "ConnectionRefused"]
    \/ e = [variant |-> "Io", kind |-> "ConnectionReset"]
    \/ e = [variant |-> "Io", kind |-> "ConnectionAborted"]

\* C9: a permanent error ends retry_connect_errors at once: it is the value
\* returned, connect is not called again and no backoff sleep follows,
\* whatever the budget and however many transient failures came before.
C9_PermanentReturnsAtOnce ==
    /\ (attempts > 0 /\ ~last.ok /\ ~TransientError(last.err)) =>
          /\ rpc = "done"
          /\ result = last
          /\ permAt = attempts
    /\ permAt # 0 => (rpc = "done" /\ attempts = permAt)

\* A permanent error after at least one transient failure, budget left.
C9_Witness ==
    /\ permAt >= 2
    /\ rpc = "done"
    /\ elapsed < connect_timeout

\* What holds at every moment of a run in which connect only fails
\* transiently: a retry is only ever scheduled inside the budget, and the
\* run ends with the last transient error, given up because the budget is
\* exceeded or cannot take the next interval.
TransientWithinBudget ==
    /\ rpc = "sleeping" => elapsed + sleep <= connect_timeout
    /\ attempts <= connect_timeout + 1
    /\ (rpc = "done" /\ allTransient) =>
          /\ result = last
          /\ ~result.ok
          /\ TransientError(result.err)
          /\ elapsed + sleep > connect_timeout

GaveUpOnlyOverBudget ==
    (rpc = "done" /\ ~result.ok /\ TransientError(result.err)) =>
        elapsed + sleep > connect_timeout

\* The attempt that succeeds follows only transient failures; it ends the
\* call with its own value, and it is the last invocation of connect.
SuccessAfterTransients ==
    (rpc = "ready" /\ attempts' = attempts + 1 /\ last'.ok) =>
        /\ attempts = 0 \/ (allTransient /\ ~last.ok /\ TransientError(last.err))
        /\ rpc' = "done"
        /\ result' = last'

\* C11: when connect fails transiently N times and then succeeds, and the
\* N attempts with their backoff intervals fit in connect_timeout,
\* retry_connect_errors returns the success after exactly N+1 invocations;
\* no earlier transient error is returned.
C11_RetryThenSuccess ==
    /\ []GaveUpOnlyOverBudget
    /\ [][SuccessAfterTransients]_vars

\* A success on the third attempt, after two transient failures.
C11_Witness ==
    /\ rpc = "done" /\ result.ok
    /\ attempts = 3

(***************************************************************************)
(* Properties of the query data files.                                     *)
(***************************************************************************)
Returned(l) == lst[l].pc = "returned"

\* The final names query-<content hash>.json whose file was created by a
\* save_in call of this run (the file present before the run has the inode
\* PreInode; a temporary file is named after a span).
SavedFinalPaths ==
    {p \in Paths : /\ p[1] = offline_dir
                   /\ p[2] \in {hash_string(q) : q \in Queries}
                   /\ entries[p] \in Writers}

\* C5: a load of D's final path with D's query that reads the document
\* save_in(D) wrote succeeds and returns a descriptor with D's database
\* kind, query text, content hash and describe payload.
C5_RoundTrip ==
    \A l \in Loaders, w \in Writers :
        (/\ Returned(l)
         /\ wst[w].pc = "done"
         /\ lst[l].path = final_path(offline_dir, wst[w].data)
         /\ lst[l].query = wst[w].data.query
         /\ lst[l].res.src = "disk"
         /\ lst[l].res.stored = Serialize(wst[w].data))
        => /\ lst[l].res.status = "ok"
           /\ lst[l].res.data = wst[w].data

\* C6: a load never returns a descriptor whose stored query differs from
\* the query asked for; whenever the descriptor found, in the cache or on
\* disk, stores another query the load fails with the collision error.
C6_CollisionLaw ==
    \A l \in Loaders :
        Returned(l) =>
            /\ lst[l].res.status = "ok" => lst[l].res.data.query = lst[l].query
            /\ (lst[l].res.stored # NoDoc /\ lst[l].res.stored.query # lst[l].query)
                  => lst[l].res.status = "collision"

\* One load put a descriptor in the cache and a later load of the same path
\* with another query was refused from the cache.
C6_Witness ==
    \E l1, l2 \in Loaders :
        /\ Returned(l1) /\ Returned(l2)
        /\ lst[l1].path = lst[l2].path
        /\ lst[l1].res.status = "ok" /\ lst[l1].res.src = "disk"
        /\ lst[l2].res.status = "collision" /\ lst[l2].res.src = "cache"

\* C7: whatever the interleaving of save_in calls, a file that a save_in
\* call made visible under a final name query-<hash>.json is at all times
\* a complete serialized descriptor.
C7_FinalFilesComplete ==
    \A p \in SavedFinalPaths : inodes[entries[p]].state = "full"

\* C8: when two save_in calls of the same query text have ended, both
\* succeeded and the final directory holds exactly one file of this run for
\* that query, at query-<content hash>.json, holding the complete
\* descriptor one of the two wrote.
C8_IdempotentResave ==
    \A w1, w2 \in Writers :
        (/\ w1 # w2
         /\ wst[w1].pc \in {"done", "failed"}
         /\ wst[w2].pc \in {"done", "failed"}
         /\ wst[w1].data.query = wst[w2].data.query)
        => LET final == final_path(offline_dir, wst[w1].data) IN
           /\ wst[w1].pc = "done"
           /\ wst[w2].pc = "done"
           /\ final \in SavedFinalPaths
           /\ FileAt(final) \in {FullFile(Serialize(wst[w1].data)),
                                 FullFile(Serialize(wst[w2].data))}
           /\ \A p \in SavedFinalPaths :
                FileAt(p).doc.query = wst[w1].data.query => p = final

\* The loads that went to the file at path p: they are reading it now or
\* have returned what they read.
DiskLoads(p) ==
    {l \in Loaders : /\ lst[l].path = p
                     /\ \/ lst[l].pc = "reading"
                        \/ Returned(l) /\ lst[l].res.src = "disk"}

\* Every successful load returned the allocation held by the cache.
SharedHandle ==
    \A l \in Loaders :
        (Returned(l) /\ lst[l].res.status = "ok") =>
            /\ arcs.returned[l] # 0
            /\ arcs.returned[l] = arcs.cached[lst[l].path]
            /\ lst[l].res.data = cache[lst[l].path]

\* C12 as stated: under any interleaving of loads of one path with the
\* matching query the file is read and parsed at most once, and every
\* successful load returns the allocation held by the cache.
C12_ReadAtMostOnce ==
    /\ SharedHandle
    /\ \A p \in LoadPaths :
         (\A l \in DiskLoads(p) : hash_string(lst[l].query) = p[2]) =>
             Cardinality({l \in DiskLoads(p) : lst[l].res.status # "io_error"}) <= 1

\* C12 (amended): a file is read and parsed successfully at most once per
\* path, no load reads a path the cache already holds, and every
\* successful load returns the allocation held by the cache; a load that
\* fails caches nothing, so the next load of the path reads the file again.
C12_SharedHandle ==
    /\ SharedHandle
    /\ \A p \in LoadPaths :
         /\ Cardinality({l \in DiskLoads(p) : lst[l].res.status = "ok"}) <= 1
         /\ \A l \in Loaders :
              (lst[l].pc = "reading" /\ lst[l].path = p) => (cache[p] = NoData /\ lock = l)

\* Two loads of one path with its query: the first read the file, the
\* second was answered from the cache with the same allocation.
C12_Witness ==
    \E l1, l2 \in Loaders :
        /\ l1 # l2
        /\ Returned(l1) /\ Returned(l2)
        /\ lst[l1].path = lst[l2].path
        /\ lst[l1].res.status = "ok" /\ lst[l1].res.src = "disk"
        /\ lst[l2].res.status = "ok" /\ lst[l2].res.src = "cache"
        /\ arcs.returned[l1] = arcs.returned[l2]

\* The names in the final directory that point at a file a save_in call
\* of this run created.
VisibleInFinalDir ==
    {p \in Paths : p[1] = offline_dir /\ entries[p] \in Writers}

\* Writer w's call is the only one made so far, and it returned an error.
FailedAlone(w) ==
    /\ wst[w].pc = "failed"
    /\ \A v \in Writers \ {w} : wst[v].pc = "idle"

\* C13: when a file-system step of save_in fails, the call returns an
\* error, what was at the content-hash path before the call is still
\* there, and no empty or partly written file is visible in the final
\* directory, whichever directory that is.
C13_FailedSaveLeavesNoArtifact ==
    \A w \in Writers :
        FailedAlone(w) =>
            /\ entries[final_path(offline_dir, wst[w].data)] \notin Writers
            /\ \A p \in VisibleInFinalDir : inodes[entries[p]].state = "full"

\* C14: every descriptor, built by from_describe or returned by a load,
\* carries the content hash of its own query text, and every complete file
\* a save_in call put under a final name query-<h>.json stores a query
\* whose content hash is h.
C14_HashOfOwnQuery ==
    /\ \A w \in Writers :
         wst[w].data # NoData => wst[w].data.hash = hash_string(wst[w].data.query)
    /\ \A l \in Loaders :
         (Returned(l) /\ lst[l].res.status = "ok") =>
             lst[l].res.data.hash = hash_string(lst[l].res.data.query)
    /\ \A p \in SavedFinalPaths :
         inodes[entries[p]].state = "full" =>
             p[2] = hash_string(inodes[entries[p]].doc.query)

\* A load that returned after parsing the file at its path.
ParsedFile(l) ==
    Returned(l) /\ lst[l].res.src = "disk" /\ lst[l].res.stored # NoDoc

\* A successful load reports a database kind that is compiled in, the one
\* the file or the cache entry names.
OkOnlySupported ==
    \A l \in Loaders :
        (Returned(l) /\ lst[l].res.status = "ok") =>
            /\ lst[l].res.data.db_name \in EnabledDatabases
            /\ lst[l].res.data.db_name = lst[l].res.stored.db_name

\* C15 as stated: a load fails with the unknown-database error whenever
\* the db_name stored in the file is not compiled in, and succeeds only
\* for a supported tag, reporting that kind.
C15_UnknownDbAlways ==
    /\ OkOnlySupported
    /\ \A l \in Loaders :
         (ParsedFile(l) /\ lst[l].res.stored.db_name \notin EnabledDatabases) =>
             lst[l].res.status = "unknown_db"

\* C15 (amended): a load of a file whose db_name is not compiled in never
\* returns a descriptor; it fails with the unknown-database error when the
\* stored query is the query asked for, and with the collision error,
\* which is checked first, when it is not.  A load succeeds only for a
\* supported tag and reports that kind.
C15_UnknownDbAfterCollision ==
    /\ OkOnlySupported
    /\ \A l \in Loaders :
         (ParsedFile(l) /\ lst[l].res.stored.db_name \notin EnabledDatabases) =>
             lst[l].res.status =
                 IF lst[l].res.stored.query = lst[l].query THEN "unknown_db" ELSE "collision"

\* Both cases happened: one load of the file was refused for its database
\* kind, another for its query.
C15_Witness ==
    \E l1, l2 \in Loaders :
        /\ ParsedFile(l1) /\ lst[l1].res.status = "unknown_db"
        /\ ParsedFile(l2) /\ lst[l2].res.status = "collision"
        /\ lst[l2].res.stored.db_name \notin EnabledDatabases

\* C17: no thread holds the OFFLINE_DATA_CACHE mutex while it reads or
\* parses a data file, so a load of one path never waits for the disk read
\* of another.
C17_LockFreeDuringRead ==
    \A l \in Loaders : lst[l].pc = "reading" => lock # l

(***************************************************************************)
(* Properties of the prepare pass.                                         *)
(***************************************************************************)
\* The steps that touch a file, clean, or build.
RecompileSteps == {"touch", "cargo clean -p", "cargo clean", "cargo rustc", "cargo check"}

\* C20: in every run of run_prepare_step the cache directory exists and is
\* empty before the first touch, clean or build command, and when the pass
\* has succeeded every file in the cache directory was written by this
\* pass.
C20_CacheDirEmptiedFirst ==
    /\ \A i \in 1..Len(plog) :
         plog[i].cmd \in RecompileSteps =>
             \E j \in 1..(i - 1) : plog[j] = Step("ensure_empty_dir", cache_dir(ctx), TRUE)
    /\ ppc = "emptied" =>
          (fs[cache_dir(ctx)].exists /\ fs[cache_dir(ctx)].files = {})
    /\ ppc = "done" => \A f \in fs[cache_dir(ctx)].files : f.pass = "this"

\* A workspace pass that touched, cleaned, built and succeeded, and left
\* this pass's descriptor in the cache directory.
C20_Witness ==
    /\ ppc = "done" /\ ctx.workspace
    /\ \E i \in 1..Len(plog) : plog[i].cmd = "cargo clean -p"
    /\ fs[cache_dir(ctx)].files = {NewDescriptor}

\* C21: the staging directory target/sqlx holds no temporary file of an
\* earlier pass when the pass is about to run a build command, for
\* `prepare` as for `prepare --check`.
C21_StagingDirEmptied ==
    ppc \in {"rustc", "check"} => OldTemp \notin fs[TmpDir].files

\* C22: a touch or a `cargo clean -p` that fails is the last step of the
\* pass, and the pass has failed: no touch, clean or build follows it.
C22_SetupFailureAborts ==
    \A i \in 1..Len(plog) :
        (plog[i].cmd \in {"touch", "cargo clean -p"} /\ ~plog[i].ok) =>
            (i = Len(plog) /\ ppc = "failed")

\* The pass connects first and once; a connection that fails is the only
\* step of the pass.
ConnectsOnceFirst ==
    plog # <<>> =>
        /\ plog[1].cmd = "connect"
        /\ \A i \in 2..Len(plog) : plog[i].cmd # "connect"
        /\ ~plog[1].ok => (Len(plog) = 1 /\ ppc = "failed")

\* The first step of a pass leaves the directories as they were.
FirstStepKeepsDirs == plog = <<>> => fs' = fs

\* C23: `prepare` and `prepare --check` confirm that the database can be
\* reached once and before anything else; when it cannot, the pass has
\* failed with the cache directory as it was: nothing was cleared, touched,
\* cleaned or built.
C23_ConnectFirst ==
    /\ []ConnectsOnceFirst
    /\ [][FirstStepKeepsDirs]_vars

\* The connection failed and a cache directory with files of an earlier
\* pass is still there.
C23_Witness ==
    /\ Len(plog) = 1 /\ ~plog[1].ok
    /\ ppc = "failed"
    /\ OldDescriptor \in fs[cache_dir(ctx)].files

\* Every cache entry is the descriptor a successful load read from the
\* file at that path, with the query that load asked for and a database
\* kind that is compiled in.
CacheHoldsLoaded ==
    \A p \in Paths :
        cache[p] # NoData =>
            /\ cache[p].db_name \in EnabledDatabases
            /\ \E l \in Loaders :
                 /\ Returned(l) /\ lst[l].path = p
                 /\ lst[l].res.src = "disk" /\ lst[l].res.status = "ok"
                 /\ lst[l].query = cache[p].query
                 /\ lst[l].res.data = cache[p]
                 /\ Deserialize(lst[l].res.stored).query = cache[p].query

\* A load that returns an error leaves the cache as it was, and a load of
\* a path that is not in the cache goes to the file.
FailedLoadKeepsCache ==
    \A l \in Loaders :
        /\ (lst[l].pc # "returned" /\ lst'[l].pc = "returned" /\ lst'[l].res.status # "ok")
              => (cache' = cache /\ arcs'.cached = arcs.cached)
        /\ (lst[l].pc = "idle" /\ lst'[l].pc # "idle" /\ cache[lst'[l].path] = NoData)
              => lst'[l].pc = "reading"

\* C24: a load that fails (file unreadable or malformed, query collision,
\* unknown database kind) leaves the cache unchanged; every cache entry
\* was parsed successfully, matched the query of the load that inserted it
\* and has a supported database kind; a later load of a path that failed
\* reads the file again.
C24_FailedLoadNotCached ==
    /\ []CacheHoldsLoaded
    /\ [][FailedLoadKeepsCache]_vars

\* A load of a path failed on a collision and a later load of the same
\* path, with the stored query, read the file again and succeeded.
C24_Witness ==
    \E l1, l2 \in Loaders :
        /\ Returned(l1) /\ Returned(l2)
        /\ lst[l1].path = lst[l2].path
        /\ lst[l1].res.src = "disk" /\ lst[l1].res.status = "collision"
        /\ lst[l2].res.src = "disk" /\ lst[l2].res.status = "ok"
        /\ cache[lst[l2].path] = lst[l2].res.data

\* An entry of the cache is never replaced or removed.
EntriesStay ==
    \A p \in Paths :
        cache[p] # NoData => (cache'[p] = cache[p] /\ arcs'.cached[p] = arcs.cached[p])

\* Loader l starts a load of a path that has an entry in the cache.
StartsOnCached(l) ==
    lst[l].pc = "idle" /\ lst'[l].pc # "idle" /\ cache[lst'[l].path] # NoData

\* C25 as stated: an entry is never replaced or removed, and every later
\* load of its path returns, without reading the file, the descriptor
\* that was loaded first.
C25_AlwaysFirstDescriptor ==
    [][/\ EntriesStay
       /\ \A l \in Loaders :
            StartsOnCached(l) =>
                /\ lst'[l].pc = "returned" /\ lst'[l].res.src = "cache"
                /\ lst'[l].res.status = "ok"
                /\ lst'[l].res.data = cache[lst'[l].path]]_vars

\* C25 (amended): an entry is never replaced or removed, and every later
\* load of its path is answered from the cache without reading the file:
\* with the entry's query it returns the descriptor loaded first, the same
\* allocation, whatever the file holds by then; with another query it
\* fails with the collision error.
C25_EntryNeverReplaced ==
    [][/\ EntriesStay
       /\ \A l \in Loaders :
            StartsOnCached(l) =>
                /\ lst'[l].pc = "returned" /\ lst'[l].res.src = "cache"
                /\ IF lst'[l].query = cache[lst'[l].path].query
                   THEN /\ lst'[l].res.status = "ok"
                        /\ lst'[l].res.data = cache[lst'[l].path]
                        /\ arcs'.returned[l] = arcs.cached[lst'[l].path]
                   ELSE lst'[l].res.status = "collision"]_vars

\* A load was answered from the cache with the descriptor loaded first
\* although a save has put another document at the path since.
C25_Witness ==
    \E l \in Loaders :
        /\ Returned(l) /\ lst[l].res.src = "cache" /\ lst[l].res.status = "ok"
        /\ FileAt(lst[l].path).state = "full"
        /\ FileAt(lst[l].path).doc.describe # lst[l].res.data.describe

=============================================================================
